---- MODULE Spec2Model ----
(***************************************************************************)
(* A model of the call-session event pipeline of asterisk-transcribe-and-  *)
(* act: the talk-turn state kept by AsteriskInterco.on_event, the artifact *)
(* watcher (EventHandler.on_created / on_modified / process_files) and the *)
(* retry queue worker (EventQueue._process_queue).                         *)
(***************************************************************************)
EXTENDS Integers, Sequences, FiniteSets, TLC

(***************************************************************************)
(* Bounds of the model.                                                    *)
(***************************************************************************)
\* time.time() is read from a clock that ticks at most MaxClock times
MaxClock == 3
\* the number of events the telephony source delivers in one behaviour
MaxAmiEvents == 6
\* the number of entries ever appended to the retry queue by the watcher
MaxSubmits == 3

None == "None"
\* None where a time is expected (self.start_time), and where a path is
NoTime == <<>>
NoPath == [stem |-> "", side |-> "none", ext |-> ""]

(***************************************************************************)
(* The telephony events (event.name, event.keys) delivered to on_event.    *)
(***************************************************************************)
Conferences == {"conf1", "conf2"}
Channels == {"SIP/100", "SIP/200"}
EventNames == {"ConfbridgeStart", "ConfbridgeJoin", "ChannelTalkingStart",
               "ChannelTalkingStop", "Hangup"}
AmiEvents == [name : EventNames, Conference : Conferences, Channel : Channels]

(***************************************************************************)
(* The artifacts the watcher is notified about.  A file of a pair is       *)
(* <stem>-in.<ext> or <stem>-out.<ext>; side "none" is a file that follows *)
(* neither convention.                                                     *)
(***************************************************************************)
CallIds == {"call1", "call2"}
Sides == {"in", "out"}
FileTypes == {"wav", "csv"}
PairPaths == [stem : CallIds, side : Sides, ext : FileTypes]
OtherPaths == [stem : {"call1"}, side : {"none"}, ext : FileTypes]
             \cup {[stem |-> "call1", side |-> "in", ext |-> "txt"]}
FsPaths == PairPaths \cup OtherPaths
\* the notifications of files, and one of a directory
FsEvents == [src_path : FsPaths, is_directory : {FALSE}]
           \cup [src_path : {[stem |-> "call1", side |-> "in", ext |-> "wav"]},
                 is_directory : {TRUE}]

\* wave.Error, any other exception, or a normal return of item.process()
Outcomes == {"ok", "wave_error", "other_error"}

VARIABLES
    \* ---- AsteriskInterco (asterisk_interco.py) ----
    conference_name,   \* self.conference_name
    start,             \* self.start
    stop,              \* self.stop
    start_time,        \* self.start_time: NoTime or <<the clock value at acceptance>>
    talkerChannel,     \* self.talkerChannel ("unset" until first assigned)
    now,               \* the value time.time() returns
    listener,          \* where the listener thread is inside on_event
    delivered,         \* number of events the source has delivered
    segments,          \* history: number of talk-starts accepted (start_time set)
    turn,              \* history: the channel of the talk-start accepted last
    stops,             \* history: number of talk-stops the stop branch has taken
    \* ---- EventHandler (watcher.py) ----
    file_type,         \* self.file_type
    files,             \* the pair files that exist in the watched directory
    data,              \* self.data: the call ids that have a handle
    \* ---- EventQueue (queuehandler.py) ----
    processing_queue,  \* the deque
    worker,            \* where the worker thread is in _process_queue
    cur,               \* the entry popped by the worker
    i,                 \* the worker's counter i
    \* ---- history of the retry queue ----
    submits,           \* number of entries the watcher has appended
    seqno,             \* number of appends (watcher and requeue) so far
    lastPopped,        \* seq of the entry popped last
    invoked,           \* per submission: number of process() invocations
    failed,            \* per submission: number of wave.Error failures
    succeeded,         \* per submission: number of successful returns
    fatal,             \* the errors that left _process_queue
    raised,            \* per submission: process() calls that raised an
                       \* error other than wave.Error
    handles,           \* per call id: the handles process_files has created
    \* ---- get_pair_path (file_utils.py) applied to a path ----
    path_prefix,       \* the characters of the path before its last part
    path_suffix,       \* the last part of the path
    pair,              \* get_pair_path(path), once computed
    back,              \* get_pair_path(get_pair_path(path)), once computed
    path_handle,       \* what process_files made of the path, once called
    \* ---- ConversationTranscriptionManager (conversation.py) ----
    in_file,           \* the rows of the inbound csv file (self.in_file)
    out_file,          \* the rows of the outbound csv file (self.out_file)
    merged_df,         \* the sorted frame of fold(), written to transcription.txt
    folds,             \* number of fold() calls so far
    kw_after,          \* the argument "after" of get_timestamp_of_keyword
    timestamp,         \* what get_timestamp_of_keyword returned
    last_timestamp,    \* self.last_timestamp
    speech_processing, \* self.speech_processing is not None
    processed,         \* number of process() calls so far
    \* ---- SpeechProcessor (speech.py) ----
    sp_queue,          \* self.processing_queue
    sp_now,            \* the clock time.sleep reads
    sp_pc,             \* where run() is: "get" (line 24) or "sleep" (line 26)
    sp_event,          \* the event run() has taken from the queue
    sp_wake,           \* the time at which the sleep of run() ends
    sp_scheduled,      \* history: the schedule_event calls, in call order
    sp_invoked,        \* history: the actions run() has invoked, in order
    \* ---- AsteriskInterco, recording control (asterisk_interco.py) ----
    ami,               \* self.ami is an AMIClient (FALSE: None)
    logged_in,         \* the AMIClient is logged in to the server
    ami_sent,          \* history: the actions the server received
    talkerChannel_recorded, \* self.talkerChannel_recorded
    talkerId_recorded, \* self.talkerId_recorded
    ctl_result,        \* how the last control operation ended
    ctl_calls,         \* number of control operations called so far
    \* ---- AudioTranscriptionManager (transcriber.py) ----
    in_wav,            \* what the inbound audio file holds (self.in_file)
    out_wav,           \* what the outbound audio file holds (self.out_file)
    \* ---- the main loop of agi_script.py over AsteriskInterco ----
    consumer,          \* where the main thread is
    ws_returns,        \* history: the returns of wait_for_start, in order
    wp_returns,        \* history: the returns of wait_for_stop, in order
    ws_seen,           \* history: the talk-starts signalled (accepted, or
                       \* in the wait of on_event) when wait_for_start left
                       \* its loop
    wp_seen,           \* history: stops when wait_for_stop left its loop
    \* ---- Watcher.run (watcher.py), one per watcher thread of setup.main ----
    watch_directory,   \* self.watch_directory of each watcher
    dirs,              \* the directories that exist
    run_pc,            \* where each watcher thread is inside run()
    starts,            \* history: observer.start() calls of each watcher
    made               \* history: directories each watcher has created

callVars == <<conference_name, start, stop, start_time, talkerChannel, now,
              listener, delivered, segments, turn, stops>>
watchVars == <<file_type, files, data>>
queueVars == <<processing_queue, worker, cur, i>>
histVars == <<submits, seqno, lastPopped, invoked, failed, succeeded, fatal,
             raised, handles>>
pathVars == <<path_prefix, path_suffix, pair, back, path_handle>>
convVars == <<in_file, out_file, merged_df, folds, kw_after, timestamp,
              last_timestamp, speech_processing, processed>>
speechRunVars == <<sp_now, sp_pc, sp_event, sp_wake, sp_invoked>>
speechVars == <<sp_queue, sp_scheduled, speechRunVars>>
ctlVars == <<ami, logged_in, ami_sent, talkerChannel_recorded,
             talkerId_recorded, ctl_result, ctl_calls>>
audioVars == <<in_wav, out_wav>>
mainVars == <<consumer, ws_returns, wp_returns, ws_seen, wp_seen>>
runVars == <<watch_directory, dirs, run_pc, starts, made>>
extVars == <<pathVars, convVars, speechVars, ctlVars, audioVars, mainVars,
            runVars>>
baseVars == <<callVars, watchVars, queueVars, histVars, ctlVars, audioVars,
             mainVars, runVars>>
\* everything the main thread and the listener leave alone
mainRestVars == <<watchVars, queueVars, histVars, pathVars, convVars,
                  speechVars, audioVars, runVars>>
\* everything but the fields of the recording control
ctlRestVars == <<callVars, watchVars, queueVars, histVars, pathVars, convVars,
                 speechVars, audioVars, mainVars, runVars>>
vars == <<callVars, watchVars, queueVars, histVars, extVars>>

(***************************************************************************)
(* AsteriskInterco.__init__                                                *)
(***************************************************************************)
InitCall ==
    /\ conference_name = None
    /\ start = FALSE
    /\ stop = FALSE
    /\ start_time = NoTime
    /\ talkerChannel = "unset"
    /\ now = 0
    /\ listener = "idle"
    /\ delivered = 0
    /\ segments = 0
    /\ turn = "unset"
    /\ stops = 0

\* time passes between two readings of time.time()
Tick ==
    /\ now < MaxClock
    /\ now' = now + 1
    /\ UNCHANGED <<conference_name, start, stop, start_time, talkerChannel,
                   listener, delivered, segments, turn, stops>>
    /\ UNCHANGED <<watchVars, queueVars, histVars, extVars>>

\* the guard of the conference branch of on_event, as Python parses it:
\*   name == 'ConfbridgeStart' or (name == 'ConfbridgeJoin' and conference_name == None)
IsConferenceEvent(name, conf) ==
    name = "ConfbridgeStart" \/ (name = "ConfbridgeJoin" /\ conf = None)

\* a talk-start that records no channel
TalkerOfNone(event) == "unset"

\* "self.talkerChannel = event.keys['Channel']"
TalkerOf(event) == event.Channel

\* a guard of the talk-start branch that does not look at the conference
IsTalkStartNoConf(name, conf) == name = "ChannelTalkingStart"

\* "elif event.name == 'ChannelTalkingStart' and self.conference_name is not None"
IsTalkStart(name, conf) == name = "ChannelTalkingStart" /\ conf # None

\* a talk-stop branch that is never taken
IsTalkStopNever(name, conf) == FALSE

\* "elif event.name == 'ChannelTalkingStop' and self.conference_name is not None"
IsTalkStop(name, conf) == name = "ChannelTalkingStop" /\ conf # None

\* the exit condition of "while self.start_time is not None: time.sleep(0.05)"
SegmentClosedNoWait(st) == TRUE
SegmentClosed(st) == st = NoTime

(***************************************************************************)
(* on_event up to the wait loop.  The AMI client calls its listeners from  *)
(* its one listening thread, an event at a time: the next event is handed  *)
(* to on_event only when the previous call has returned.                   *)
(***************************************************************************)
on_event(event) ==
    /\ listener = "idle"
    /\ delivered < MaxAmiEvents
    /\ delivered' = delivered + 1
    /\ IF IsConferenceEvent(event.name, conference_name)
       THEN /\ conference_name' = event.Conference
            /\ UNCHANGED <<start, stop, start_time, talkerChannel, listener,
                           stops>>
       ELSE IF IsTalkStart(event.name, conference_name)
       THEN /\ talkerChannel' = TalkerOf(event)
            /\ start' = TRUE
            /\ stop' = FALSE
            /\ listener' = "wait"
            /\ UNCHANGED <<conference_name, start_time, stops>>
       ELSE IF IsTalkStop(event.name, conference_name)
       THEN /\ stop' = TRUE
            /\ start_time' = NoTime
            /\ stops' = stops + 1
            /\ UNCHANGED <<conference_name, start, talkerChannel, listener>>
       ELSE UNCHANGED <<conference_name, start, stop, start_time,
                        talkerChannel, listener, stops>>
    /\ UNCHANGED <<now, segments, turn>>
    /\ UNCHANGED <<watchVars, queueVars, histVars, extVars>>

\* the wait loop of the ChannelTalkingStart branch and the assignment after it
on_event_accept ==
    /\ listener = "wait"
    /\ SegmentClosed(start_time)
    /\ start_time' = <<now>>
    /\ segments' = segments + 1
    /\ turn' = talkerChannel
    /\ listener' = "idle"
    /\ UNCHANGED <<conference_name, start, stop, talkerChannel, now, delivered,
                   stops>>
    /\ UNCHANGED <<watchVars, queueVars, histVars, extVars>>

NextCall ==
    \/ Tick
    \/ \E event \in AmiEvents : on_event(event)
    \/ on_event_accept


(***************************************************************************)
(* EventHandler.__init__ and EventQueue.__init__                           *)
(***************************************************************************)
NoEntry == [item |-> None, retries |-> 0, tup |-> FALSE, sid |-> 0, seq |-> 0]
Sids == 1..MaxSubmits

InitWatch ==
    /\ file_type \in FileTypes
    /\ files = {}
    /\ data = {}

InitQueue ==
    /\ processing_queue = <<>>
    /\ worker = "idle"
    /\ cur = NoEntry
    /\ i = 0

InitHist ==
    /\ submits = 0
    /\ seqno = 0
    /\ lastPopped = 0
    /\ invoked = [s \in Sids |-> 0]
    /\ failed = [s \in Sids |-> 0]
    /\ succeeded = [s \in Sids |-> 0]
    /\ fatal = <<>>
    /\ raised = [s \in Sids |-> 0]
    /\ handles = [c \in CallIds |-> 0]

\* no path has been handed to get_pair_path
Unset == [kind |-> "unset", value |-> <<>>]
InitPathIdle ==
    /\ path_prefix = <<>>
    /\ path_suffix = <<>>
    /\ pair = Unset
    /\ back = Unset
    /\ path_handle = Unset

\* ConversationTranscriptionManager.__init__, no file read yet
InitConvIdle ==
    /\ in_file = <<>>
    /\ out_file = <<>>
    /\ merged_df = <<>>
    /\ folds = 0
    /\ kw_after = NoTime
    /\ timestamp = Unset
    /\ last_timestamp = NoTime
    /\ speech_processing = FALSE
    /\ processed = 0

NoEvent == [delay |-> 0, action |-> "none"]

\* SpeechProcessor.__init__, run() about to start
InitSpeech ==
    /\ sp_queue = <<>>
    /\ sp_now = 0
    /\ sp_pc = "get"
    /\ sp_event = NoEvent
    /\ sp_wake = 0
    /\ sp_scheduled = <<>>
    /\ sp_invoked = <<>>

NoResult == [op |-> "none", had_ami |-> FALSE, kind |-> "none"]

\* AsteriskInterco.__init__: no client yet; talkerChannel_recorded is not
\* an attribute until start_record_request sets it
InitControl ==
    /\ ami = FALSE
    /\ logged_in = FALSE
    /\ ami_sent = <<>>
    /\ talkerChannel_recorded = "unset"
    /\ talkerId_recorded = None
    /\ ctl_result = NoResult
    /\ ctl_calls = 0

\* the audio files of a call, complete
InitAudioIdle ==
    /\ in_wav = "valid"
    /\ out_wav = "valid"

\* agi_script.main before its first statement
InitMain ==
    /\ consumer = "connection_asterisk"
    /\ ws_returns = <<>>
    /\ wp_returns = <<>>
    /\ ws_seen = 0
    /\ wp_seen = 0

\* setup.main before the watcher threads are started: both watch
\* directories exist
Watchers == {"audio_watcher", "text_watcher"}
Dirs == {"monitor", "csv"}

InitRunIdle ==
    /\ watch_directory = [w \in Watchers |->
                             IF w = "audio_watcher" THEN "monitor" ELSE "csv"]
    /\ dirs = Dirs
    /\ run_pc = [w \in Watchers |-> "start"]
    /\ starts = [w \in Watchers |-> <<>>]
    /\ made = [w \in Watchers |-> 0]

InitExtIdle ==
    /\ InitPathIdle /\ InitConvIdle /\ InitSpeech /\ InitControl
    /\ InitAudioIdle /\ InitMain /\ InitRunIdle

Init == InitCall /\ InitWatch /\ InitQueue /\ InitHist /\ InitExtIdle

(***************************************************************************)
(* file_utils.get_pair_path: -in.<ext> <-> -out.<ext> for wav and csv,     *)
(* None for any other path.                                                *)
(***************************************************************************)
get_pair_path(file_path) ==
    IF file_path.ext \in {"wav", "csv"} /\ file_path.side = "in"
    THEN [file_path EXCEPT !.side = "out"]
    ELSE IF file_path.ext \in {"wav", "csv"} /\ file_path.side = "out"
    THEN [file_path EXCEPT !.side = "in"]
    ELSE NoPath

\* handlers without the early return
IgnoredNever(event) == FALSE

\* the early return of on_created / on_modified
Ignored(event) ==
    event.is_directory \/ event.src_path.ext # file_type

\* "pair_path and os.path.exists(pair_path)"
PairOnDisk(event, disk) ==
    /\ get_pair_path(event.src_path) # NoPath
    /\ get_pair_path(event.src_path) \in disk

\* '-'.join(os.path.basename(file_path).split('-')[:-1])
unique_identifier(file_path) == file_path.stem

\* a process_files that builds a handle at every call
CreatesAlways(id, d) == TRUE

\* "if unique_identifier not in self.data"
Creates(id, d) == id \notin d

\* process_files: the handle of the call is created once and kept in self.data;
\* the handle returned is the one stored under the call id
process_files(file_path) == data \cup {unique_identifier(file_path)}

\* the constructor calls of process_files, counted per call id
process_files_created(file_path) ==
    IF Creates(unique_identifier(file_path), data)
    THEN [handles EXCEPT ![unique_identifier(file_path)] = @ + 1]
    ELSE handles

\* "transcription_manager in self.processing_queue": deque.__contains__ compares
\* each element with ==, and a handle equals only itself, never a tuple
InQueue(handle, q) ==
    \E k \in 1..Len(q) : ~q[k].tup /\ q[k].item = handle

\* the files the model keeps track of: the pair files of the watched kind
Tracked(event) ==
    ~event.is_directory /\ event.src_path \in PairPaths
        /\ event.src_path.ext = file_type

(***************************************************************************)
(* EventHandler.on_created, called for a file that has just been created.  *)
(***************************************************************************)
on_created(event) ==
    /\ Tracked(event) => event.src_path \notin files
    /\ files' = IF Tracked(event) THEN files \cup {event.src_path} ELSE files
    /\ IF ~Ignored(event) /\ PairOnDisk(event, files')
       THEN /\ data' = process_files(event.src_path)
            /\ handles' = process_files_created(event.src_path)
       ELSE UNCHANGED <<data, handles>>
    /\ UNCHANGED <<submits, seqno, lastPopped, invoked, failed, succeeded,
                   fatal, raised>>
    /\ UNCHANGED <<file_type, queueVars, callVars, extVars>>

(***************************************************************************)
(* EventHandler.on_modified, called for a file that has been written to.   *)
(***************************************************************************)
on_modified(event) ==
    /\ Tracked(event) => event.src_path \in files
    /\ IF ~Ignored(event) /\ PairOnDisk(event, files)
       THEN /\ data' = process_files(event.src_path)
            /\ handles' = process_files_created(event.src_path)
            /\ LET handle == unique_identifier(event.src_path) IN
               IF InQueue(handle, processing_queue)
               THEN UNCHANGED <<processing_queue, submits, seqno>>
               ELSE /\ submits < MaxSubmits
                    /\ processing_queue' = Append(processing_queue,
                           [item |-> handle, retries |-> 0, tup |-> FALSE,
                            sid |-> submits + 1, seq |-> seqno + 1])
                    /\ submits' = submits + 1
                    /\ seqno' = seqno + 1
       ELSE UNCHANGED <<data, handles, processing_queue, submits, seqno>>
    /\ UNCHANGED <<file_type, files, worker, cur, i, callVars, extVars>>
    /\ UNCHANGED <<lastPopped, invoked, failed, succeeded, fatal, raised>>

(***************************************************************************)
(* EventQueue._process_queue: one thread, started by __init__.             *)
(***************************************************************************)
MAX_RETRIES == 5

\* "if isinstance(item, tuple): item, retries = item / else: retries = 0"
Retries(entry) == IF entry.tup THEN entry.retries ELSE 0

\* "if retries < MAX_RETRIES"
CanRetryOffByOne(retries) == retries <= MAX_RETRIES
CanRetry(retries) == retries < MAX_RETRIES

\* the attempt number of the requeued tuple: retries+1
NextRetriesSame(retries) == retries
NextRetries(retries) == retries + 1

\* self.append(...): at the right end of the deque
RequeueAtHead(q, entry) == <<entry>> \o q
Requeue(q, entry) == Append(q, entry)

\* a queue whose entries are taken whatever the worker is doing
AtLoopHeadAlways(w) == w # "dead"

\* the one thread __init__ starts is at the head of its loop: the call of
\* item.process() before has returned
AtLoopHead(w) == w = "idle"

\* "if self: ... item = self.popleft()" and the unpacking of the entry
WorkerPop ==
    /\ AtLoopHead(worker)
    /\ processing_queue # <<>>
    /\ cur' = Head(processing_queue)
    /\ processing_queue' = Tail(processing_queue)
    /\ worker' = "processing"
    /\ lastPopped' = Head(processing_queue).seq
    /\ UNCHANGED <<i, submits, seqno, invoked, failed, succeeded, fatal,
                   raised, handles>>
    /\ UNCHANGED <<watchVars, callVars, extVars>>

\* an except clause that catches every error
CaughtAny(outcome) == outcome # "ok"

\* "except wave.Error as e"
Caught(outcome) == outcome = "wave_error"

\* try: item.process() / except wave.Error / finally: i += 1
WorkerProcess(outcome) ==
    /\ worker = "processing"
    /\ invoked' = [invoked EXCEPT ![cur.sid] = @ + 1]
    /\ i' = i + 1
    /\ cur' = NoEntry
    /\ raised' = IF outcome = "other_error"
                 THEN [raised EXCEPT ![cur.sid] = @ + 1] ELSE raised
    /\ CASE outcome = "ok" ->
              /\ succeeded' = [succeeded EXCEPT ![cur.sid] = @ + 1]
              /\ worker' = "idle"
              /\ UNCHANGED <<processing_queue, seqno, failed, fatal>>
         [] outcome # "ok" /\ Caught(outcome) ->
              /\ failed' = [failed EXCEPT ![cur.sid] = @ + 1]
              /\ IF CanRetry(Retries(cur))
                 THEN /\ processing_queue' = Requeue(processing_queue,
                             [item |-> cur.item,
                              retries |-> NextRetries(Retries(cur)),
                              tup |-> TRUE, sid |-> cur.sid,
                              seq |-> seqno + 1])
                      /\ seqno' = seqno + 1
                      /\ worker' = "idle"
                      /\ UNCHANGED fatal
                 ELSE /\ fatal' = Append(fatal,
                             [sid |-> cur.sid, kind |-> outcome])
                      /\ worker' = "dead"
                      /\ UNCHANGED <<processing_queue, seqno>>
              /\ UNCHANGED succeeded
         [] OTHER ->
              /\ fatal' = Append(fatal, [sid |-> cur.sid, kind |-> outcome])
              /\ worker' = "dead"
              /\ UNCHANGED <<processing_queue, seqno, failed, succeeded>>
    /\ UNCHANGED <<submits, lastPopped, handles>>
    /\ UNCHANGED <<watchVars, callVars, extVars>>

NextQueue ==
    \/ \E event \in FsEvents : on_created(event)
    \/ \E event \in FsEvents : on_modified(event)
    \/ WorkerPop
    \/ \E outcome \in Outcomes : WorkerProcess(outcome)

SpecCall == Init /\ [][NextCall]_vars
SpecQueue == Init /\ [][NextQueue]_vars


(***************************************************************************)
(* The talk-turn state machine (claims C1 to C3), under SpecCall.          *)
(***************************************************************************)

\* C1: the talk state (a segment is open while start_time is set) alternates
\* Idle -> Talking -> Idle: start_time is set only from None and goes from a
\* set value only to None, and a talk-start is accepted (counted in segments)
\* only while no segment is open, i.e. after a ChannelTalkingStop has cleared
\* the previous one.
C1_TalkAlternates ==
    [][ /\ start_time' # start_time =>
               (start_time = NoTime \/ start_time' = NoTime)
        /\ segments' # segments =>
               (start_time = NoTime /\ start_time' # NoTime) ]_vars

\* a second talk-start has been accepted, after the first segment was closed
C1_SecondStartAccepted ==
    segments = 2 /\ start_time # NoTime /\ stop = FALSE

\* C2: a ChannelTalkingStart that arrives while a segment is open changes
\* none of the talker channel, the start flag and the stop flag before
\* start_time has been cleared (the step that enters the wait leaves them).
C2_WaitBeforeUpdate ==
    [][ (listener = "idle" /\ listener' = "wait" /\ start_time # NoTime) =>
            /\ talkerChannel' = talkerChannel
            /\ start' = start
            /\ stop' = stop ]_vars

\* C3: once the conference name is known, no later event changes it.
C3_ConferenceSetOnce ==
    [][ conference_name # None => conference_name' = conference_name ]_vars

(***************************************************************************)
(* The retry queue and the watcher (claims C4 to C10), under SpecQueue.    *)
(***************************************************************************)
\* the submissions that are queued or in flight
Pending ==
    {processing_queue[k].sid : k \in 1..Len(processing_queue)}
        \cup (IF worker = "processing" THEN {cur.sid} ELSE {})

\* the submissions of one handle that are queued or in flight
PendingOf(handle) ==
    {processing_queue[k].sid :
        k \in {m \in 1..Len(processing_queue) :
                  processing_queue[m].item = handle}}
        \cup (IF worker = "processing" /\ cur.item = handle
              THEN {cur.sid} ELSE {})

FatalOf(s) == {k \in 1..Len(fatal) : fatal[k].sid = s}

\* C4: a job that fails with wave.Error k < 5 times and then succeeds has been
\* invoked k+1 times, succeeded once and raised nothing fatal, and the attempt
\* number a job carries, queued or at its invocation, is the number of its
\* failures so far.
C4_RetryThenSuccess ==
    /\ worker = "processing" => Retries(cur) = failed[cur.sid]
    /\ \A k \in 1..Len(processing_queue) :
           Retries(processing_queue[k]) = failed[processing_queue[k].sid]
    /\ \A s \in Sids :
           /\ succeeded[s] <= 1
           /\ (succeeded[s] = 1 /\ failed[s] < MAX_RETRIES) =>
                  /\ invoked[s] = failed[s] + 1
                  /\ FatalOf(s) = {}
                  /\ s \notin Pending

\* a job has succeeded at its fifth attempt, after four wave.Error failures
C4_SucceededAfterFourFailures ==
    \E s \in Sids : succeeded[s] = 1 /\ failed[s] = MAX_RETRIES - 1

\* C5: the attempt number of a queued or in-flight job never exceeds
\* MAX_RETRIES; a job that fails with wave.Error at every invocation is invoked
\* at most MAX_RETRIES + 1 times, its last failure is the one fatal error it
\* raises, and it is not queued again afterwards.
C5_RetryBound ==
    /\ worker = "processing" => Retries(cur) <= MAX_RETRIES
    /\ \A k \in 1..Len(processing_queue) :
           Retries(processing_queue[k]) <= MAX_RETRIES
    /\ \A s \in Sids :
           invoked[s] = failed[s] =>
               /\ invoked[s] <= MAX_RETRIES + 1
               /\ Cardinality(FatalOf(s)) =
                      (IF failed[s] = MAX_RETRIES + 1 THEN 1 ELSE 0)
               /\ failed[s] = MAX_RETRIES + 1 => s \notin Pending

\* a job has failed six times in a row and raised its fatal error
C5_RetriesExhausted ==
    \E s \in Sids :
        /\ failed[s] = MAX_RETRIES + 1
        /\ invoked[s] = MAX_RETRIES + 1
        /\ fatal = <<[sid |-> s, kind |-> "wave_error"]>>

\* C6: the queue is first in, first out: its entries are in the order of their
\* appends (a requeued job, appended last, is behind every job that was
\* pending), and the entry popped is older than every entry still queued.
C6_Fifo ==
    /\ \A k \in 1..(Len(processing_queue) - 1) :
           processing_queue[k].seq < processing_queue[k + 1].seq
    /\ \A k \in 1..Len(processing_queue) :
           processing_queue[k].seq > lastPopped

\* a retried job is queued behind a job of another call, which was already
\* pending when the retry happened, while a third entry is being processed
C6_RetryBehindPending ==
    /\ Len(processing_queue) >= 2
    /\ processing_queue[Len(processing_queue)].tup
    /\ ~processing_queue[1].tup
    /\ processing_queue[1].item # processing_queue[Len(processing_queue)].item
    /\ lastPopped > 0

\* C7: a handle is never in the queue more than once, be it on its first
\* attempt or requeued and awaiting a retry.
C7_QueuedOnce ==
    \A handle \in CallIds :
        Cardinality({k \in 1..Len(processing_queue) :
                        processing_queue[k].item = handle}) <= 1

\* C8: while the worker is inside process() of a handle, a modification event
\* does not append that handle to the queue.
C8_InFlightNotEnqueued ==
    [][ (worker = "processing" /\ worker' = "processing"
            /\ Len(processing_queue') > Len(processing_queue)) =>
            processing_queue'[Len(processing_queue')].item # cur.item ]_vars

\* C9: a created event for a file of the watched kind whose pair is on disk
\* leaves the handle of the call created and queued or in flight.
C9_CreatedSubmits ==
    [][ \A file_path \in files' \ files :
            get_pair_path(file_path) \in files =>
                /\ unique_identifier(file_path) \in data'
                /\ PendingOf(unique_identifier(file_path))' # {} ]_vars

\* C10: a pair is processed once per pairing event: the creation that
\* completes a pair yields a submission of its own, and the modification
\* notifications that arrive while a submission of the call is not yet
\* processed yield no second one.
C10_OncePerPairingEvent ==
    [][ /\ \A handle \in CallIds : Cardinality(PendingOf(handle)') <= 1
        /\ (\E file_path \in files' \ files :
                get_pair_path(file_path) \in files) =>
               submits' = submits + 1 ]_vars

(***************************************************************************)
(* Paths as Python sees them: strings, here sequences of characters.       *)
(***************************************************************************)
\* the number of parts a path prefix is put together from
MaxChunks == 2

InWav == <<"-", "i", "n", ".", "w", "a", "v">>
OutWav == <<"-", "o", "u", "t", ".", "w", "a", "v">>
InCsv == <<"-", "i", "n", ".", "c", "s", "v">>
OutCsv == <<"-", "o", "u", "t", ".", "c", "s", "v">>
DashIn == <<"-", "i", "n", ".">>
DashOut == <<"-", "o", "u", "t", ".">>

\* the parts of the paths handed to get_pair_path: a call name, a directory
\* separator, and parts that look like the markers of the naming convention
Chunks == {<<"c", "1">>, <<"/">>, <<"-", "i", "n">>, InWav, OutWav, OutCsv}
Markers == {InWav, OutWav, InCsv, OutCsv}
\* the last part of a path: a marker, or an ending outside the convention
Endings == Markers \cup {<<".", "w", "a", "v">>, <<"-", "i", "n", ".", "t", "x", "t">>}

RECURSIVE Concat(_)
Concat(parts) ==
    IF parts = <<>> THEN <<>> ELSE Head(parts) \o Concat(Tail(parts))

Prefixes ==
    {Concat(parts) : parts \in UNION {[1..n -> Chunks] : n \in 0..MaxChunks}}

\* Python's "sub in s"
Contains(s, sub) ==
    \E k \in 0..(Len(s) - Len(sub)) : SubSeq(s, k + 1, k + Len(sub)) = sub

\* Python's s.replace(old, new): every occurrence, from the left
RECURSIVE Replace(_, _, _)
Replace(s, old, new) ==
    IF Len(s) < Len(old) THEN s
    ELSE IF SubSeq(s, 1, Len(old)) = old
    THEN new \o Replace(SubSeq(s, Len(old) + 1, Len(s)), old, new)
    ELSE <<Head(s)>> \o Replace(Tail(s), old, new)

PathOf(value) == [kind |-> "path", value |-> value]
NonePath == [kind |-> "none", value |-> <<>>]

(***************************************************************************)
(* file_utils.get_pair_path on a string.                                   *)
(***************************************************************************)
get_pair_path_str(file_path) ==
    IF Contains(file_path, InWav)
    THEN PathOf(Replace(file_path, InWav, OutWav))
    ELSE IF Contains(file_path, OutWav)
    THEN PathOf(Replace(file_path, OutWav, InWav))
    ELSE IF Contains(file_path, InCsv)
    THEN PathOf(Replace(file_path, InCsv, OutCsv))
    ELSE IF Contains(file_path, OutCsv)
    THEN PathOf(Replace(file_path, OutCsv, InCsv))
    ELSE NonePath

\* the paths get_pair_path is applied to
InitPath ==
    /\ path_prefix \in Prefixes
    /\ path_suffix \in Endings
    /\ pair = Unset
    /\ back = Unset
    /\ path_handle = Unset

\* pair_path = get_pair_path(file_path)
ApplyGetPairPath ==
    /\ pair = Unset
    /\ pair' = get_pair_path_str(path_prefix \o path_suffix)
    /\ UNCHANGED <<path_prefix, path_suffix, back, path_handle>>
    /\ UNCHANGED <<baseVars, convVars, speechVars>>

\* get_pair_path applied to the pair it returned
ApplyGetPairPathAgain ==
    /\ pair.kind = "path"
    /\ back = Unset
    /\ back' = get_pair_path_str(pair.value)
    /\ UNCHANGED <<path_prefix, path_suffix, pair, path_handle>>
    /\ UNCHANGED <<baseVars, convVars, speechVars>>

NextPath == ApplyGetPairPath \/ ApplyGetPairPathAgain

\* the components a specification of one function leaves at rest
InitBaseIdle ==
    /\ InitCall /\ InitQueue /\ InitHist /\ InitControl /\ InitAudioIdle
    /\ InitMain /\ InitRunIdle
    /\ file_type = "wav" /\ files = {} /\ data = {}

InitPathOnly == InitBaseIdle /\ InitPath /\ InitConvIdle /\ InitSpeech

SpecPath == InitPathOnly /\ [][NextPath]_vars

\* the marker of the other file of the pair
OtherMarker(marker) ==
    CASE marker = InWav -> OutWav
      [] marker = OutWav -> InWav
      [] marker = InCsv -> OutCsv
      [] marker = OutCsv -> InCsv

\* C11: for every prefix X, the pair of X-in.<ext> is X-out.<ext> and the
\* pair of X-out.<ext> is X-in.<ext> (wav and csv), applying get_pair_path
\* twice gives the path back, and the result is None for a path that contains
\* neither "-in." nor "-out.".
C11_PairOfConvention ==
    LET file_path == path_prefix \o path_suffix IN
    /\ (pair # Unset /\ path_suffix \in Markers) =>
           pair = PathOf(path_prefix \o OtherMarker(path_suffix))
    /\ (back # Unset /\ path_suffix \in Markers) => back = PathOf(file_path)
    /\ (pair # Unset /\ ~Contains(file_path, DashIn)
           /\ ~Contains(file_path, DashOut)) => pair = NonePath

(***************************************************************************)
(* ConversationTranscriptionManager (conversation.py): the two csv files   *)
(* of a conversation, fold(), get_timestamp_of_keyword() and process().    *)
(* A csv row is a record time_start, time_end, text; a text is a sequence  *)
(* of characters.                                                          *)
(***************************************************************************)
MaxStart == 1
MaxAfter == 2
MaxRows == 2
MaxProcess == 2
MaxProcRows == 1

Hi == <<"h", "i">>
Chronos == <<"C", "h", "r", "o", "n", "o", "s">>
Texts == {Hi, Chronos}

\* the keyword process() looks for
Keyword == <<"c", "h", "r", "o", "n", "o", "s">>

Rows(last) == {[time_start |-> t, time_end |-> t + 1, text |-> x] :
                  t \in 0..last, x \in Texts}

\* the files the transcriber writes: segments in chronological order
RowLists(n, last) ==
    UNION {{f \in [1..k -> Rows(last)] :
               \A a \in 1..(k - 1) : f[a].time_start <= f[a + 1].time_start} :
           k \in 0..n}

\* df['speaker'] = speaker; index is the row number pandas gives the row
Label(df, speaker) ==
    [k \in 1..Len(df) |->
        [speaker |-> speaker, index |-> k - 1, time_start |-> df[k].time_start,
         time_end |-> df[k].time_end, text |-> df[k].text]]

\* pd.concat([df_in, df_out])
concat(df_in, df_out) == df_in \o df_out

RECURSIVE Orders(_, _)
Orders(df, rest) ==
    IF rest = {} THEN {<<>>}
    ELSE UNION {{<<df[k]>> \o tail : tail \in Orders(df, rest \ {k})} :
                k \in {k \in rest :
                          \A j \in rest : df[k].time_start <= df[j].time_start}}

\* sort_values without inplace=True leaves the frame as it is
sort_values_copy(df) == {df}

\* merged_df.sort_values('time_start', inplace=True): the default kind is
\* quicksort, which is not stable, so rows of equal time_start come out in
\* any order
sort_values(df) == Orders(df, DOMAIN df)

\* merged_df.apply(lambda x: f"{x['speaker']} {x['text']}", axis=1)
formatted_lines(df) ==
    [k \in 1..Len(df) |-> <<df[k].speaker, " ">> \o df[k].text]

LowerChar(c) == CASE c = "C" -> "c" [] OTHER -> c

\* case=False
Lower(s) == [k \in 1..Len(s) |-> LowerChar(s[k])]

\* df['text'].str.contains(keyword, case=False, na=False)
Matches(row, keyword) == Contains(Lower(row.text), Lower(keyword))

\* the first matching row in frame order (keyword_rows.iloc[0])
get_timestamp_of_keyword(df_in, df_out, keyword, after) ==
    LET fin == IF after = NoTime THEN df_in
               ELSE SelectSeq(df_in, LAMBDA r : r.time_start > after[1])
        fout == IF after = NoTime THEN df_out
                ELSE SelectSeq(df_out, LAMBDA r : r.time_start > after[1])
        df == concat(fin, fout)
        keyword_rows == SelectSeq(df, LAMBDA r : Matches(r, keyword))
    IN  IF keyword_rows # <<>> THEN <<keyword_rows[1].time_start>> ELSE NoTime

Result(value) == [kind |-> "result", value |-> value]

\* "if timestamp": None and 0.0 are false
Truthy(ts) == ts # NoTime /\ ts[1] # 0

\* an event put at the head of the queue
schedule_event_front(queue, delay, action) ==
    <<[delay |-> delay, action |-> action]>> \o queue

\* SpeechProcessor.schedule_event
schedule_event(queue, delay, action) ==
    Append(queue, [delay |-> delay, action |-> action])

\* history of the schedule_event calls
Scheduled(log, delay, action) ==
    Append(log, [delay |-> delay, action |-> action, at |-> sp_now])

\* fold() called on its own
fold ==
    /\ folds = 0
    /\ merged_df' \in sort_values(concat(Label(in_file, "IN :"),
                                         Label(out_file, "OUT:")))
    /\ folds' = folds + 1
    /\ UNCHANGED <<in_file, out_file, kw_after, timestamp, last_timestamp,
                   speech_processing, processed>>
    /\ UNCHANGED <<baseVars, pathVars, speechVars>>

\* get_timestamp_of_keyword(keyword, after) called on its own
ApplyGetTimestamp ==
    /\ timestamp = Unset
    /\ timestamp' = Result(get_timestamp_of_keyword(in_file, out_file,
                                                    Keyword, kw_after))
    /\ UNCHANGED <<in_file, out_file, merged_df, folds, kw_after,
                   last_timestamp, speech_processing, processed>>
    /\ UNCHANGED <<baseVars, pathVars, speechVars>>

\* process(): fold, look for the keyword, schedule the follow-up
process ==
    /\ processed < MaxProcess
    /\ processed' = processed + 1
    /\ merged_df' \in sort_values(concat(Label(in_file, "IN :"),
                                         Label(out_file, "OUT:")))
    /\ folds' = folds + 1
    /\ LET ts == get_timestamp_of_keyword(in_file, out_file, Keyword,
                                          last_timestamp)
       IN  /\ timestamp' = Result(ts)
           /\ sp_queue' = IF Truthy(ts) /\ speech_processing
                          THEN schedule_event(sp_queue, 60,
                                              "handle_upload_and_synthesis")
                          ELSE sp_queue
           /\ sp_scheduled' = IF Truthy(ts) /\ speech_processing
                              THEN Scheduled(sp_scheduled, 60,
                                             "handle_upload_and_synthesis")
                              ELSE sp_scheduled
    /\ UNCHANGED <<in_file, out_file, kw_after, last_timestamp,
                   speech_processing>>
    /\ UNCHANGED <<baseVars, pathVars, speechRunVars>>

InitFiles(n, last) ==
    /\ in_file \in RowLists(n, last)
    /\ out_file \in RowLists(n, last)
    /\ merged_df = <<>>
    /\ folds = 0
    /\ timestamp = Unset
    /\ last_timestamp = NoTime
    /\ processed = 0

InitFold ==
    /\ InitBaseIdle /\ InitPathIdle /\ InitSpeech
    /\ InitFiles(MaxRows, MaxStart)
    /\ kw_after = NoTime
    /\ speech_processing = FALSE

InitKeyword ==
    /\ InitBaseIdle /\ InitPathIdle /\ InitSpeech
    /\ InitFiles(MaxRows, MaxAfter)
    /\ kw_after \in {NoTime} \cup {<<t>> : t \in 0..MaxAfter}
    /\ speech_processing = FALSE

InitProcess ==
    /\ InitBaseIdle /\ InitPathIdle /\ InitSpeech
    /\ InitFiles(MaxProcRows, MaxStart)
    /\ kw_after = NoTime
    /\ speech_processing \in BOOLEAN

NextFold == fold

NextKeyword == ApplyGetTimestamp

NextProcess == process

SpecFold == InitFold /\ [][NextFold]_vars

SpecKeyword == InitKeyword /\ [][NextKeyword]_vars

SpecProcess == InitProcess /\ [][NextProcess]_vars

\* the frame fold() sorts
Concatenated == concat(Label(in_file, "IN :"), Label(out_file, "OUT:"))

\* C12: the merged transcript of fold() lists every inbound and every
\* outbound segment exactly once, in non-decreasing order of start, one
\* line per segment
C12_MergedSortedComplete ==
    folds > 0 =>
        /\ Len(merged_df) = Len(in_file) + Len(out_file)
        /\ \A k \in 1..Len(Concatenated) :
              Cardinality({m \in 1..Len(merged_df) :
                              merged_df[m] = Concatenated[k]}) = 1
        /\ \A a \in 1..(Len(merged_df) - 1) :
              merged_df[a].time_start <= merged_df[a + 1].time_start
        /\ Len(formatted_lines(merged_df)) = Len(merged_df)
        /\ \A m \in 1..Len(merged_df) :
              formatted_lines(merged_df)[m] =
                  <<merged_df[m].speaker, " ">> \o merged_df[m].text

\* C12 witness: inbound (0, hi), outbound (1, ...) merged, inbound line first
C12_InboundThenOutbound ==
    /\ folds > 0
    /\ Len(in_file) = 1 /\ Len(out_file) = 1
    /\ in_file[1].time_start = 0 /\ out_file[1].time_start = 1
    /\ merged_df[1].speaker = "IN :" /\ merged_df[2].speaker = "OUT:"

\* C12 witness of the sort acting: an outbound segment that starts before
\* an inbound one comes first
C12_OutboundFirst ==
    /\ folds > 0
    /\ Len(in_file) = 1 /\ Len(out_file) = 1
    /\ in_file[1].time_start = 1 /\ out_file[1].time_start = 0
    /\ merged_df[1].speaker = "OUT:"

\* the place of a row of the merged frame in the frame before the sort
Pos(row) == IF row.speaker = "IN :" THEN row.index + 1
            ELSE Len(in_file) + row.index + 1

\* C13: the sort of fold() is stable: rows of equal start keep the order
\* they had before the sort, that is input order within one direction and
\* inbound before outbound
C13_StableMerge ==
    folds > 0 =>
        \A a \in 1..Len(merged_df) : \A b \in 1..Len(merged_df) :
            (a < b /\ merged_df[a].time_start = merged_df[b].time_start)
                => Pos(merged_df[a]) < Pos(merged_df[b])

\* the starts get_timestamp_of_keyword has to choose from: the rows of
\* either file that contain the keyword and lie after the watermark
Candidates(after) ==
    {Concatenated[k].time_start : k \in
        {k \in 1..Len(Concatenated) :
            /\ Matches(Concatenated[k], Keyword)
            /\ after = NoTime \/ Concatenated[k].time_start > after[1]}}

Smallest(S) == CHOOSE x \in S : \A y \in S : x <= y

\* C14: get_timestamp_of_keyword returns the smallest start among the rows
\* of both files that contain the keyword (whatever the case) and start
\* strictly after the watermark, when one is given, and None when there is
\* no such row
C14_SmallestMatch ==
    timestamp # Unset =>
        timestamp.value = IF Candidates(kw_after) = {} THEN NoTime
                          ELSE <<Smallest(Candidates(kw_after))>>

\* the rows of the two files that contain the keyword
Occurrences ==
    Cardinality({k \in 1..Len(Concatenated) :
                    Matches(Concatenated[k], Keyword)})

\* C15: once process() has scheduled a follow-up the watermark is set, and
\* process() calls over the same files schedule at most one follow-up per
\* keyword occurrence
C15_OneFollowUpPerOccurrence ==
    /\ Len(sp_queue) > 0 => last_timestamp # NoTime
    /\ Len(sp_queue) <= Occurrences

(***************************************************************************)
(* SpeechProcessor (speech.py): clients call schedule_event, one thread    *)
(* executes run().                                                         *)
(***************************************************************************)
MaxSched == 2
MaxDelay == 1
MaxSchedClock == 2

SchedActions == {"A", "B"}

\* a client calls schedule_event(delay, action)
ScheduleEvent(delay, action) ==
    /\ Len(sp_scheduled) < MaxSched
    /\ sp_queue' = schedule_event(sp_queue, delay, action)
    /\ sp_scheduled' = Scheduled(sp_scheduled, delay, action)
    /\ UNCHANGED speechRunVars
    /\ UNCHANGED <<baseVars, pathVars, convVars>>

\* time passes
SchedTick ==
    /\ sp_now < MaxSchedClock
    /\ sp_now' = sp_now + 1
    /\ UNCHANGED <<sp_queue, sp_scheduled, sp_pc, sp_event, sp_wake, sp_invoked>>
    /\ UNCHANGED <<baseVars, pathVars, convVars>>

\* time.sleep(delay) called at time t returns at t + delay or later
WakeTimeNoSleep(t, delay) == t

WakeTime(t, delay) == t + delay

\* run(): event = self.processing_queue.get(), then time.sleep starts
RunGet ==
    /\ sp_pc = "get"
    /\ sp_queue # <<>>
    /\ sp_event' = Head(sp_queue)
    /\ sp_queue' = Tail(sp_queue)
    /\ sp_wake' = WakeTime(sp_now, Head(sp_queue).delay)
    /\ sp_pc' = "sleep"
    /\ UNCHANGED <<sp_now, sp_scheduled, sp_invoked>>
    /\ UNCHANGED <<baseVars, pathVars, convVars>>

\* run(): the sleep is over, event['action']() is called
RunInvoke ==
    /\ sp_pc = "sleep"
    /\ sp_event.action \in SchedActions
    /\ sp_now >= sp_wake
    /\ sp_invoked' = Append(sp_invoked, [delay |-> sp_event.delay,
                                         action |-> sp_event.action,
                                         at |-> sp_now])
    /\ sp_event' = NoEvent
    /\ sp_pc' = "get"
    /\ UNCHANGED <<sp_now, sp_queue, sp_scheduled, sp_wake>>
    /\ UNCHANGED <<baseVars, pathVars, convVars>>

NextSched ==
    \/ \E delay \in 0..MaxDelay : \E action \in SchedActions :
          ScheduleEvent(delay, action)
    \/ SchedTick
    \/ RunGet
    \/ RunInvoke

InitSched == InitBaseIdle /\ InitPathIdle /\ InitConvIdle /\ InitSpeech

SpecSched == InitSched /\ [][NextSched]_vars

\* an entry of a history without its time
Call(e) == [delay |-> e.delay, action |-> e.action]

Calls(log) == [k \in 1..Len(log) |-> Call(log[k])]

\* the event run() holds between get and the call of the action
Held == IF sp_pc = "sleep" THEN <<sp_event>> ELSE <<>>

C17_NotBeforeDelay ==
    \A k \in 1..Len(sp_invoked) :
        /\ k <= Len(sp_scheduled)
        /\ sp_invoked[k].at >= sp_scheduled[k].at + sp_scheduled[k].delay

\* C17 witness: an action with a positive delay invoked exactly when its
\* delay has elapsed
C17_InvokedAtDeadline ==
    \E k \in 1..Len(sp_invoked) :
        /\ sp_scheduled[k].delay > 0
        /\ sp_invoked[k].at = sp_scheduled[k].at + sp_scheduled[k].delay

(***************************************************************************)
(* AsteriskInterco, recording control (asterisk_interco.py): connection,   *)
(* logoff and the five operations that send an action to the server.       *)
(***************************************************************************)
MaxCalls == 2

\* what the transport does with one command: the send fails (send_action
\* raises), the acknowledgement fails (get_response raises), or both work
TransportOutcomes == {"send_fails", "ack_fails", "ok"}

\* connection_asterisk
connection_asterisk ==
    /\ ~ami
    /\ ami' = TRUE
    /\ logged_in' = TRUE
    /\ UNCHANGED <<ami_sent, talkerChannel_recorded, talkerId_recorded,
                   ctl_result, ctl_calls>>
    /\ UNCHANGED ctlRestVars

\* disconnect_asterisk: logoff; self.ami keeps the client
disconnect_asterisk ==
    /\ ami /\ logged_in
    /\ logged_in' = FALSE
    /\ UNCHANGED <<ami, ami_sent, talkerChannel_recorded, talkerId_recorded,
                   ctl_result, ctl_calls>>
    /\ UNCHANGED ctlRestVars

\* a guard that does not look at self.ami
HasAmiAlways == TRUE

\* "if self.ami:"
HasAmi == ami

\* the send is outside the try: its failure leaves the operation as an
\* exception; the bare except around get_response returns "Error"
Ending(outcome) ==
    CASE outcome = "send_fails" -> "raised"
      [] outcome = "ack_fails" -> "Error"
      [] OTHER -> "response"

\* what the five operations share: the guard, send_action, get_response
SendAction(op, name, outcome) ==
    /\ ctl_calls' = ctl_calls + 1
    /\ logged_in \/ outcome = "send_fails" \/ ~HasAmi
    /\ IF HasAmi
       THEN /\ ami_sent' = IF outcome = "send_fails" THEN ami_sent
                           ELSE Append(ami_sent, name)
            /\ ctl_result' = [op |-> op, had_ami |-> ami,
                              kind |-> Ending(outcome)]
       ELSE /\ ami_sent' = ami_sent
            /\ ctl_result' = [op |-> op, had_ami |-> ami,
                              kind |-> "ValueError"]
    /\ UNCHANGED <<ami, logged_in>>

\* one of the five operations called on its own
Command(op, name, outcome) ==
    /\ ctl_calls < MaxCalls
    /\ SendAction(op, name, outcome)
    /\ UNCHANGED ctlRestVars

activate_spy(outcome) ==
    /\ Command("activate_spy", "ConfbridgeStartRecord", outcome)
    /\ UNCHANGED <<talkerChannel_recorded, talkerId_recorded>>

stop_spy(outcome) ==
    /\ Command("stop_spy", "ConfbridgeStopRecord", outcome)
    /\ UNCHANGED <<talkerChannel_recorded, talkerId_recorded>>

play_audio(outcome) ==
    /\ Command("play_audio", "originate", outcome)
    /\ UNCHANGED <<talkerChannel_recorded, talkerId_recorded>>

start_record_request(channel, outcome) ==
    /\ Command("start_record_request", "MixMonitor", outcome)
    /\ talkerChannel_recorded' =
           IF HasAmi /\ outcome # "send_fails" THEN channel
           ELSE talkerChannel_recorded
    /\ UNCHANGED talkerId_recorded

stop_recording_request(channel, outcome) ==
    /\ Command("stop_recording_request", "StopMonitor", outcome)
    /\ talkerId_recorded' =
           IF HasAmi /\ outcome # "send_fails" THEN None
           ELSE talkerId_recorded
    /\ UNCHANGED talkerChannel_recorded

NextControl ==
    \/ connection_asterisk
    \/ disconnect_asterisk
    \/ \E outcome \in TransportOutcomes : activate_spy(outcome)
    \/ \E outcome \in TransportOutcomes : stop_spy(outcome)
    \/ \E outcome \in TransportOutcomes : play_audio(outcome)
    \/ \E channel \in Channels : \E outcome \in TransportOutcomes :
          start_record_request(channel, outcome)
    \/ \E channel \in Channels : \E outcome \in TransportOutcomes :
          stop_recording_request(channel, outcome)

InitControlOnly ==
    /\ InitCall /\ InitQueue /\ InitHist
    /\ file_type = "wav" /\ files = {} /\ data = {}
    /\ InitExtIdle

SpecControl == InitControlOnly /\ [][NextControl]_vars

\* C18: a control operation called while self.ami is a client never raises:
\* it ends with the response or with the failed result "Error"
C18_ConnectedNeverRaises ==
    ctl_result.had_ami => ctl_result.kind \in {"response", "Error"}

\* C19: a control operation called while self.ami is None raises the
\* ValueError, sends no action and leaves the session fields as they were
C19_NotConnectedFailsFast ==
    [][(ctl_calls' = ctl_calls + 1 /\ ~ami) =>
          /\ ctl_result'.kind = "ValueError"
          /\ ami_sent' = ami_sent
          /\ UNCHANGED <<talkerChannel_recorded, talkerId_recorded>>
          /\ UNCHANGED callVars]_vars

\* C19 witness: start_record_request was called without a client
C19_RaisedWithoutClient ==
    /\ ctl_result.op = "start_record_request"
    /\ ~ctl_result.had_ami
    /\ ctl_result.kind = "ValueError"
    /\ ami_sent = <<>>
    /\ talkerChannel_recorded = "unset"

(***************************************************************************)
(* Errors that are not wave.Error (claim C20), under SpecQueue.            *)
(***************************************************************************)

\* C20: when process() of a job raises an error that is not wave.Error, the
\* error leaves _process_queue as a fatal error, the job is not appended
\* again, is not invoked again for that submission and is not in the queue
C20_OtherErrorFatal ==
    \A s \in Sids :
        raised[s] >= 1 =>
            /\ raised[s] = 1
            /\ \E k \in FatalOf(s) : fatal[k].kind = "other_error"
            /\ s \notin Pending
            /\ invoked[s] = failed[s] + 1
            /\ succeeded[s] = 0

\* C20 witness: a job failed with wave.Error, was retried and then raised
\* another error, while another job was waiting in the queue
C20_OtherErrorAfterRetry ==
    \E s \in Sids :
        /\ raised[s] = 1
        /\ failed[s] >= 1
        /\ processing_queue # <<>>
        /\ fatal = <<[sid |-> s, kind |-> "other_error"]>>

(***************************************************************************)
(* AudioTranscriptionManager (transcriber.py): the job of the wav watcher. *)
(* An audio file is "valid", "not_wave" (wave.open raises wave.Error: no   *)
(* RIFF id, fmt or data chunk missing) or "empty" (wave.open raises        *)
(* EOFError).                                                              *)
(***************************************************************************)
WavStates == {"empty", "not_wave", "valid"}

\* get_wav_duration: wave.Error is raised again, any other error passes
get_wav_duration(wav) ==
    CASE wav = "valid" -> "ok"
      [] wav = "not_wave" -> "wave_error"
      [] OTHER -> "other_error"

\* one try statement of transcribe: "except wave.Error: pass" and
\* "except Exception: raise"
transcribe_file(wav) ==
    IF get_wav_duration(wav) = "wave_error" THEN "ok"
    ELSE get_wav_duration(wav)

\* transcribe: the inbound file, then the outbound file; a KeyError of the
\* missing 'segments' is passed over
transcribe(wav_in, wav_out) ==
    IF transcribe_file(wav_in) # "ok" THEN transcribe_file(wav_in)
    ELSE transcribe_file(wav_out)

\* AudioTranscriptionManager.process, called by the worker of the queue
ProcessAudio == WorkerProcess(transcribe(in_wav, out_wav))

TheCall == "call1"

WavPath(side) == [stem |-> TheCall, side |-> side, ext |-> "wav"]

\* the recorder has created the file of one side: on_created
AudioCreated(side) ==
    on_created([src_path |-> WavPath(side), is_directory |-> FALSE])

\* the recorder has written to the file of one side: on_modified
AudioModified(side) ==
    on_modified([src_path |-> WavPath(side), is_directory |-> FALSE])

\* the order in which a file being recorded gets its content
WavRank(wav) == CASE wav = "empty" -> 0 [] wav = "not_wave" -> 1 [] OTHER -> 2

\* the recorder goes on writing one of the two files
WavWritten ==
    /\ \/ /\ WavPath("in") \in files
          /\ in_wav' \in {w \in WavStates : WavRank(w) > WavRank(in_wav)}
          /\ out_wav' = out_wav
       \/ /\ WavPath("out") \in files
          /\ out_wav' \in {w \in WavStates : WavRank(w) > WavRank(out_wav)}
          /\ in_wav' = in_wav
    /\ UNCHANGED <<callVars, watchVars, queueVars, histVars, pathVars,
                   convVars, speechVars, ctlVars, mainVars, runVars>>

InitAudio ==
    /\ InitCall /\ InitQueue /\ InitHist
    /\ InitPathIdle /\ InitConvIdle /\ InitSpeech /\ InitControl /\ InitMain
    /\ InitRunIdle
    /\ file_type = "wav"
    /\ files = {}
    /\ data = {}
    /\ in_wav \in WavStates
    /\ out_wav \in WavStates

NextAudio ==
    \/ \E side \in Sides : AudioCreated(side)
    \/ \E side \in Sides : AudioModified(side)
    \/ WorkerPop
    \/ ProcessAudio
    \/ WavWritten

SpecAudio == InitAudio /\ [][NextAudio]_vars

\* C21: when an audio job is processed while one of its files is not a
\* valid wave file, the call counts as a wave.Error failure of the job (not
\* as a success), and the job is appended again with its attempt number
\* raised by one while that number is below the bound
C21_InvalidWaveRetried ==
    [][(worker = "processing" /\ worker' # "processing"
            /\ (in_wav # "valid" \/ out_wav # "valid")) =>
          /\ failed'[cur.sid] = failed[cur.sid] + 1
          /\ succeeded'[cur.sid] = succeeded[cur.sid]
          /\ Retries(cur) < MAX_RETRIES =>
                \E k \in 1..Len(processing_queue') :
                    /\ processing_queue'[k].sid = cur.sid
                    /\ processing_queue'[k].retries = Retries(cur) + 1]_vars

(***************************************************************************)
(* The deferred follow-up action, handle_upload_and_synthesis              *)
(* (conversation.py, tts.py), invoked by SpeechProcessor.run.              *)
(***************************************************************************)
FollowUp == "handle_upload_and_synthesis"

\* how one call of the follow-up goes: the upload raises, the synthesis
\* raises, the delivery to the call raises, the speech engine never writes
\* its audio file, or every step works
FollowUpOutcomes == {"upload_error", "synthesis_error", "delivery_error",
                     "no_audio_file", "ok"}

\* the errors of upload_to_mission_planner are caught by the except clauses
\* of handle_upload_and_synthesis, those of convert_text_to_speech and
\* send_to_asterisk by audio_synthesis; convert_text_to_speech waits in
\* "while not os.path.exists(temp_filename)" for the audio file, and its
\* timeout only logs
FollowUpReturns(outcome) == outcome # "no_audio_file"

\* the status of the one requests.post of upload_to_mission_planner: 201,
\* or another one
HTTP_CREATED == 201
HTTP_ERROR == 500
UploadStatuses == {HTTP_CREATED, HTTP_ERROR}
NoStatus == 0

\* what upload_to_mission_planner returns for the status of its post: in
\* both branches a pair of the status and a text
upload_to_mission_planner(status) ==
    IF status = HTTP_CREATED THEN <<status, "chatBotFeedBack">>
    ELSE <<status, "Error uploading file">>

\* "if response": a tuple is false only when it is empty
TruthyTuple(response) == Len(response) > 0

\* process() has found the keyword: schedule_event(60, follow-up); the delay
\* is scaled to the clock of the model
ScheduleFollowUp(delay) == ScheduleEvent(delay, FollowUp)

\* run(): the sleep is over, the follow-up is called
\* the upload posts once; unless it raises, audio_synthesis is called when
\* "if response" holds, and the outcome is that of the synthesis
RunFollowUp(outcome, status) ==
    /\ sp_pc = "sleep"
    /\ sp_event.action = FollowUp
    /\ sp_now >= sp_wake
    /\ outcome \notin {"upload_error", "ok"} =>
          TruthyTuple(upload_to_mission_planner(status))
    /\ sp_invoked' = Append(sp_invoked,
          [delay |-> sp_event.delay,
           action |-> sp_event.action,
           at |-> sp_now,
           outcome |-> outcome,
           posts |-> 1,
           status |-> IF outcome = "upload_error" THEN NoStatus ELSE status,
           synthesis |-> /\ outcome # "upload_error"
                         /\ TruthyTuple(upload_to_mission_planner(status))])
    /\ IF FollowUpReturns(outcome)
       THEN sp_event' = NoEvent /\ sp_pc' = "get"
       ELSE sp_event' = sp_event /\ sp_pc' = "tts_wait"
    /\ UNCHANGED <<sp_now, sp_queue, sp_scheduled, sp_wake>>
    /\ UNCHANGED <<baseVars, pathVars, convVars>>

NextFollowUp ==
    \/ \E delay \in 0..MaxDelay : ScheduleFollowUp(delay)
    \/ SchedTick
    \/ RunGet
    \/ \E outcome \in FollowUpOutcomes, status \in UploadStatuses :
          RunFollowUp(outcome, status)

SpecFollowUp == InitSched /\ [][NextFollowUp]_vars

\* C22: whatever step of a follow-up fails, the follow-up returns to run():
\* the loop is at its get or in its sleep, and goes on to the actions
\* scheduled after the failing one
C22_FollowUpFailureCaught ==
    \A k \in 1..Len(sp_invoked) :
        sp_invoked[k].outcome # "ok" => sp_pc \in {"get", "sleep"}

\* C39: a follow-up starts the speech synthesis only when its upload came
\* back with status 201, and posts its upload once
C39_SynthesisOnlyWhenCreated ==
    \A k \in 1..Len(sp_invoked) :
        /\ sp_invoked[k].posts = 1
        /\ sp_invoked[k].synthesis => sp_invoked[k].status = HTTP_CREATED

(***************************************************************************)
(* The effect of one event on the session (claims C23 to C25), under       *)
(* SpecCall.                                                               *)
(***************************************************************************)

\* C23: a ChannelTalkingStop delivered while a conference is known signals
\* the stop and clears start_time, and leaves the talker channel and the
\* conference name as they were
C23_StopEffect ==
    [][\A event \in AmiEvents :
          (on_event(event) /\ event.name = "ChannelTalkingStop"
                /\ conference_name # None) =>
              /\ stop' = TRUE
              /\ start_time' = NoTime
              /\ talkerChannel' = talkerChannel
              /\ conference_name' = conference_name]_vars

\* C23 witness: a talk segment was opened by a talk-start and closed by a
\* talk-stop; the talker channel and the conference are still set
C23_StoppedAfterTalk ==
    /\ segments >= 1
    /\ stop /\ start_time = NoTime
    /\ talkerChannel \in Channels
    /\ conference_name \in Conferences

\* the names on_event reacts to
KnownNames == {"ConfbridgeStart", "ConfbridgeJoin", "ChannelTalkingStart",
               "ChannelTalkingStop"}

\* C24: an event of any other name, and a talk-start or talk-stop delivered
\* before a conference is known, change no field of the session; on_event
\* returns (the listener is idle again)
C24_IgnoredEventNoChange ==
    [][\A event \in AmiEvents :
          (on_event(event)
              /\ \/ event.name \notin KnownNames
                 \/ /\ event.name \in {"ChannelTalkingStart",
                                       "ChannelTalkingStop"}
                    /\ conference_name = None) =>
              /\ UNCHANGED <<conference_name, start, stop, start_time,
                             talkerChannel>>
              /\ listener' = "idle"]_vars

\* C24 witness: events were delivered and the session is as __init__ left it
C24_NothingChanged ==
    /\ delivered >= 2
    /\ conference_name = None /\ ~start /\ ~stop
    /\ start_time = NoTime /\ talkerChannel = "unset"

\* C25 as stated: the talker channel is set only while a talk segment is
\* open (start_time set)
C25_ChannelOnlyWhileTalking ==
    talkerChannel # "unset" => start_time # NoTime

\* C25, amended: the talker channel is set whenever a talk segment is open,
\* and it stays set once a talk-start has been accepted, also after the
\* talk-stop that closes the segment; the session has one talker channel
C25_ChannelSetWhileTalking ==
    /\ start_time # NoTime => talkerChannel \in Channels
    /\ segments >= 1 => talkerChannel \in Channels

\* C25 witness: two segments were opened, the last one is closed, and the
\* talker channel is still set
C25_ChannelKeptWhenIdle ==
    /\ segments >= 2
    /\ start_time = NoTime
    /\ talkerChannel \in Channels

(***************************************************************************)
(* The main thread (agi_script.main) over AsteriskInterco: it connects,    *)
(* waits for the conference and then loops wait_for_start / wait_for_stop, *)
(* while the listening thread of the AMI client runs on_event.             *)
(***************************************************************************)
\* how speech_to_text and the two subprocess calls of wait_for_stop end
TranscribeOutcomes == {"ok", "raises"}

\* the start-spy commands the server has received so far
RECURSIVE CountOf(_, _)
CountOf(log, name) ==
    IF log = <<>> THEN 0
    ELSE (IF Head(log) = name THEN 1 ELSE 0) + CountOf(Tail(log), name)

\* agi_script.main line 18: connection_asterisk registers on_event
main_connect ==
    /\ consumer = "connection_asterisk"
    /\ ami' = TRUE
    /\ logged_in' = TRUE
    /\ consumer' = "wait_for_conference"
    /\ UNCHANGED <<ami_sent, talkerChannel_recorded, talkerId_recorded,
                   ctl_result, ctl_calls, ws_returns, wp_returns, ws_seen,
                   wp_seen>>
    /\ UNCHANGED <<callVars, mainRestVars>>

\* wait_for_conference: "while self.conference_name == None: time.sleep(0.25)"
wait_for_conference ==
    /\ consumer = "wait_for_conference"
    /\ conference_name # None
    /\ consumer' = "wait_for_start"
    /\ UNCHANGED <<ws_returns, wp_returns, ws_seen, wp_seen>>
    /\ UNCHANGED <<callVars, ctlVars, mainRestVars>>

\* wait_for_start, "while self.start is False: time.sleep(0.05)"
wait_for_start_loop ==
    /\ consumer = "wait_for_start"
    /\ start
    /\ consumer' = "activate_spy"
    /\ ws_seen' = segments + (IF listener = "wait" THEN 1 ELSE 0)
    /\ UNCHANGED <<ws_returns, wp_returns, wp_seen>>
    /\ UNCHANGED <<callVars, ctlVars, mainRestVars>>

\* wait_for_start, "logging.info(self.activate_spy('monitor.wav'))": a send
\* that fails leaves wait_for_start, and the main loop, as an exception
wait_for_start_spy(outcome) ==
    /\ consumer = "activate_spy"
    /\ SendAction("activate_spy", "ConfbridgeStartRecord", outcome)
    /\ consumer' = IF outcome = "send_fails" THEN "raised" ELSE "reset_start"
    /\ UNCHANGED <<talkerChannel_recorded, talkerId_recorded, ws_returns,
                   wp_returns, ws_seen, wp_seen>>
    /\ UNCHANGED <<callVars, mainRestVars>>

\* wait_for_start, "self.start = False"
wait_for_start_reset ==
    /\ consumer = "reset_start"
    /\ start' = FALSE
    /\ consumer' = "return_channel"
    /\ UNCHANGED <<conference_name, stop, start_time, talkerChannel, now,
                   listener, delivered, segments, turn, stops>>
    /\ UNCHANGED <<ws_returns, wp_returns, ws_seen, wp_seen>>
    /\ UNCHANGED <<ctlVars, mainRestVars>>

\* wait_for_start, "while self.talkerChannel is None" and the return
wait_for_start_return ==
    /\ consumer = "return_channel"
    /\ talkerChannel # None
    /\ ws_returns' = Append(ws_returns,
           [channel |-> talkerChannel,
            turn |-> turn,
            segments |-> segments,
            spies |-> CountOf(ami_sent, "ConfbridgeStartRecord")])
    /\ consumer' = "wait_for_stop"
    /\ UNCHANGED <<wp_returns, ws_seen, wp_seen>>
    /\ UNCHANGED <<callVars, ctlVars, mainRestVars>>

\* wait_for_stop, "while self.stop is False: time.sleep(0.05)"
wait_for_stop_loop ==
    /\ consumer = "wait_for_stop"
    /\ stop
    /\ consumer' = "stop_spy"
    /\ wp_seen' = stops
    /\ UNCHANGED <<ws_returns, wp_returns, ws_seen>>
    /\ UNCHANGED <<callVars, ctlVars, mainRestVars>>

\* wait_for_stop, "logging.info(self.stop_spy())"
wait_for_stop_spy(outcome) ==
    /\ consumer = "stop_spy"
    /\ SendAction("stop_spy", "ConfbridgeStopRecord", outcome)
    /\ consumer' = IF outcome = "send_fails" THEN "raised"
                   ELSE "speech_to_text"
    /\ UNCHANGED <<talkerChannel_recorded, talkerId_recorded, ws_returns,
                   wp_returns, ws_seen, wp_seen>>
    /\ UNCHANGED <<callVars, mainRestVars>>

\* wait_for_stop, the try block: the flag is reset only when the
\* transcription and the two subprocess calls went through; the except
\* branch returns the exception and leaves the flag
wait_for_stop_return(outcome) ==
    /\ consumer = "speech_to_text"
    /\ stop' = IF outcome = "ok" THEN FALSE ELSE stop
    /\ wp_returns' = Append(wp_returns, [kind |-> outcome, stops |-> stops])
    /\ consumer' = "response"
    /\ UNCHANGED <<conference_name, start, start_time, talkerChannel, now,
                   listener, delivered, segments, turn, stops>>
    /\ UNCHANGED <<ws_returns, ws_seen, wp_seen>>
    /\ UNCHANGED <<ctlVars, mainRestVars>>

\* agi_script.main lines 26-41: "'Hello Chronos' in response" raises a
\* TypeError when the response is the exception wait_for_stop returned, and
\* main catches KeyboardInterrupt only; otherwise the loop goes round
main_response ==
    /\ consumer = "response"
    /\ consumer' = IF wp_returns[Len(wp_returns)].kind = "ok"
                   THEN "wait_for_start" ELSE "raised"
    /\ UNCHANGED <<ws_returns, wp_returns, ws_seen, wp_seen>>
    /\ UNCHANGED <<callVars, ctlVars, mainRestVars>>

\* the listener is registered by connection_asterisk: no event before it
NextMain ==
    \/ main_connect
    \/ wait_for_conference
    \/ wait_for_start_loop
    \/ \E outcome \in TransportOutcomes : wait_for_start_spy(outcome)
    \/ wait_for_start_reset
    \/ wait_for_start_return
    \/ wait_for_stop_loop
    \/ \E outcome \in TransportOutcomes : wait_for_stop_spy(outcome)
    \/ \E outcome \in TranscribeOutcomes : wait_for_stop_return(outcome)
    \/ main_response
    \/ \E event \in AmiEvents : ami /\ on_event(event)
    \/ on_event_accept

SpecMain == Init /\ [][NextMain]_vars

\* the segments count at the return before the k-th return of wait_for_start
SegmentsBefore(k) == IF k = 1 THEN 0 ELSE ws_returns[k - 1].segments

ReturnsAfterAccept ==
    \A k \in 1..Len(ws_returns) :
        ws_returns[k].segments > SegmentsBefore(k)

OneSpyPerReturn ==
    \A k \in 1..Len(ws_returns) : ws_returns[k].spies = k

ReturnsTalkerOfTurn ==
    \A k \in 1..Len(ws_returns) : ws_returns[k].channel = ws_returns[k].turn

StopReturnsAfterStop ==
    \A k \in 1..Len(wp_returns) : wp_returns[k].stops >= 1

\* C26: wait_for_start returns only after a talk-start has been accepted
\* since its previous return, with exactly one start-spy command sent per
\* return and with the channel of the talker of the accepted talk turn;
\* wait_for_stop returns only after a talk-stop has been delivered
C26_WaitContract ==
    /\ ReturnsAfterAccept
    /\ OneSpyPerReturn
    /\ ReturnsTalkerOfTurn
    /\ StopReturnsAfterStop

(***************************************************************************)
(* Watcher.run (watcher.py): the two watcher threads setup.main starts,    *)
(* each over the watch directory its configuration names.                  *)
(***************************************************************************)
\* how observer.start() ends over a directory that exists
StartOutcomes == {"ok", "OSError"}

\* observer.start(): the inotify watch of a missing directory raises
\* FileNotFoundError
ObserverStart(w, outcome) ==
    IF watch_directory[w] \in dirs THEN outcome ELSE "FileNotFoundError"

\* run(), "try: self.observer.start()" and the except clause that catches
\* FileNotFoundError only
run_start(w, outcome) ==
    /\ run_pc[w] = "start"
    /\ starts' = [starts EXCEPT ![w] = Append(@, ObserverStart(w, outcome))]
    /\ run_pc' = [run_pc EXCEPT ![w] =
                     CASE ObserverStart(w, outcome) = "ok" -> "running"
                       [] ObserverStart(w, outcome) = "FileNotFoundError"
                              -> "makedirs"
                       [] OTHER -> "raised"]
    /\ UNCHANGED <<watch_directory, dirs, made>>
    /\ UNCHANGED <<callVars, watchVars, queueVars, histVars, pathVars,
                   convVars, speechVars, ctlVars, audioVars, mainVars>>

\* run(), "os.makedirs(self.watch_directory)": without exist_ok it raises
\* FileExistsError over a directory that exists by now; the creation of a
\* missing directory is taken to succeed
run_makedirs(w) ==
    /\ run_pc[w] = "makedirs"
    /\ IF watch_directory[w] \notin dirs
       THEN /\ dirs' = dirs \cup {watch_directory[w]}
            /\ made' = [made EXCEPT ![w] = @ + 1]
            /\ run_pc' = [run_pc EXCEPT ![w] = "restart"]
       ELSE /\ run_pc' = [run_pc EXCEPT ![w] = "raised"]
            /\ UNCHANGED <<dirs, made>>
    /\ UNCHANGED <<watch_directory, starts>>
    /\ UNCHANGED <<callVars, watchVars, queueVars, histVars, pathVars,
                   convVars, speechVars, ctlVars, audioVars, mainVars>>

\* run(), the second "self.observer.start()", outside any try
run_restart(w, outcome) ==
    /\ run_pc[w] = "restart"
    /\ starts' = [starts EXCEPT ![w] = Append(@, ObserverStart(w, outcome))]
    /\ run_pc' = [run_pc EXCEPT ![w] =
                     IF ObserverStart(w, outcome) = "ok" THEN "running"
                     ELSE "raised"]
    /\ UNCHANGED <<watch_directory, dirs, made>>
    /\ UNCHANGED <<callVars, watchVars, queueVars, histVars, pathVars,
                   convVars, speechVars, ctlVars, audioVars, mainVars>>

NextRun ==
    \/ \E w \in Watchers : \E outcome \in StartOutcomes : run_start(w, outcome)
    \/ \E w \in Watchers : run_makedirs(w)
    \/ \E w \in Watchers : \E outcome \in StartOutcomes :
          run_restart(w, outcome)

\* the configuration names any directory for either watcher, and any of
\* them may be missing when the program starts
InitRun ==
    /\ InitCall /\ InitQueue /\ InitHist
    /\ file_type = "wav" /\ files = {} /\ data = {}
    /\ InitPathIdle /\ InitConvIdle /\ InitSpeech /\ InitControl
    /\ InitAudioIdle /\ InitMain
    /\ watch_directory \in [Watchers -> Dirs]
    /\ dirs \in SUBSET Dirs
    /\ run_pc = [w \in Watchers |-> "start"]
    /\ starts = [w \in Watchers |-> <<>>]
    /\ made = [w \in Watchers |-> 0]

SpecRun == InitRun /\ [][NextRun]_vars

\* run() of watcher w has left its start-up code
Started(w) == run_pc[w] \in {"running", "raised"}

\* the first start of w failed over the missing directory
MissingAtStart(w) ==
    Len(starts[w]) >= 1 /\ starts[w][1] = "FileNotFoundError"

CreatedAndRetriedOnce ==
    \A w \in Watchers :
        (Started(w) /\ MissingAtStart(w)) =>
            made[w] = 1 /\ Len(starts[w]) = 2

RetryFailureFatal ==
    \A w \in Watchers :
        /\ Len(starts[w]) <= 2
        /\ (Len(starts[w]) = 2 /\ starts[w][2] # "ok") => run_pc[w] = "raised"

NoDirectoryWhenStarted ==
    \A w \in Watchers :
        (Len(starts[w]) >= 1 /\ starts[w][1] = "ok") =>
            made[w] = 0 /\ Len(starts[w]) = 1 /\ run_pc[w] = "running"

\* C27: a watcher whose first start fails over the missing watch directory
\* creates the directory and starts once more; a failure of that second
\* start leaves run() as an exception and is not retried; a watcher whose
\* first start succeeds creates no directory
C27_MissingDirectoryRetriedOnce ==
    /\ CreatedAndRetriedOnce
    /\ RetryFailureFatal
    /\ NoDirectoryWhenStarted

(***************************************************************************)
(* The handle map and the single consumer (claims C28 to C30), under       *)
(* SpecQueue.  The observer of a watcher calls on_created and on_modified  *)
(* from its one dispatching thread, an event at a time.                    *)
(***************************************************************************)
\* C28: whatever file events of a call id the watcher is handed, in
\* whatever order, process_files creates at most one handle for that call
\* id, the one self.data keeps and every later lookup returns
C28_OneHandlePerCall ==
    \A c \in CallIds :
        /\ handles[c] <= 1
        /\ c \in data <=> handles[c] = 1

\* C28 witness: two jobs of call1 were submitted, each by an on_modified
\* that looked the handle up, and call1 has its one handle
C28_LookedUpTwice ==
    /\ submits >= 2
    /\ handles["call1"] = 1
    /\ handles["call2"] = 0

\* C29: the queue has one consumer: a job enters process() only when no
\* job of the queue is inside it, and the job that enters is the oldest
\* entry of the queue, the one at its head
C29_SingleConsumerOldestFirst ==
    [][(cur' # cur /\ cur' # NoEntry) =>
          /\ cur = NoEntry
          /\ worker = "idle" /\ worker' = "processing"
          /\ processing_queue # <<>>
          /\ cur' = Head(processing_queue)
          /\ \A k \in 1..Len(processing_queue') :
                 processing_queue'[k].seq > cur'.seq]_vars

\* C29 witness: the second job popped is inside process() while a younger
\* entry waits in the queue
C29_BusyWhileQueued ==
    /\ worker = "processing"
    /\ cur.seq >= 2
    /\ processing_queue # <<>>
    /\ processing_queue[1].seq > cur.seq

\* the file events C30 is about: a directory, a file of another extension,
\* a path of neither convention, a file whose pair is not on disk
Unpaired(event) ==
    \/ event.is_directory
    \/ event.src_path.ext # file_type
    \/ get_pair_path(event.src_path) = NoPath
    \/ get_pair_path(event.src_path) \notin files

C31_OneFollowUpPerMatch ==
    [][(processed' = processed + 1 /\ speech_processing) =>
          /\ Len(sp_scheduled') = Len(sp_scheduled)
                 + (IF timestamp'.value # NoTime THEN 1 ELSE 0)
          /\ Len(sp_queue') = Len(sp_queue)
                 + (IF timestamp'.value # NoTime THEN 1 ELSE 0)
          /\ UNCHANGED sp_invoked]_vars

(***************************************************************************)
(* The end of the process (claim C32): setup.main sleeps in its loop until *)
(* it is interrupted; the worker of an EventQueue is a daemon thread and   *)
(* the queue is a deque in memory.                                         *)
(***************************************************************************)
\* the jobs written somewhere a restart would read them from: the program
\* has no such place
Persisted == {}

\* the process is stopped: main leaves its loop with the interrupt, the
\* daemon threads end where they are, nothing of the queue is written
Shutdown ==
    /\ worker # "exited"
    /\ worker' = "exited"
    /\ UNCHANGED <<processing_queue, cur, i>>
    /\ UNCHANGED <<watchVars, histVars, callVars, extVars>>

\* the threads of the process run until it is stopped
Running == worker # "exited"

NextShutdown ==
    \/ \E event \in FsEvents : Running /\ on_created(event)
    \/ \E event \in FsEvents : Running /\ on_modified(event)
    \/ Running /\ WorkerPop
    \/ \E outcome \in Outcomes : Running /\ WorkerProcess(outcome)
    \/ Shutdown

SpecShutdown == Init /\ [][NextShutdown]_vars

\* C32: once the process is stopped, every job that was queued or inside
\* process() at that moment has completed or is persisted for a restart
C32_NoJobLostAtShutdown ==
    worker = "exited" =>
        /\ \A k \in 1..Len(processing_queue) :
               processing_queue[k].item \in Persisted
        /\ cur # NoEntry => cur.item \in Persisted

(***************************************************************************)
(* The signals between the listener and the main thread (claims C33 and    *)
(* C34), under SpecMain.                                                   *)
(***************************************************************************)
\* C33: a talk-stop delivered after wait_for_stop has left its wait loop,
\* and still signalled when wait_for_stop returns, stays signalled for the
\* next wait_for_stop
C33_StopSignalKept ==
    [][(consumer = "speech_to_text" /\ consumer' = "response"
            /\ stops > wp_seen /\ stop) => stop']_vars

\* C34: a talk-start accepted after wait_for_start has left its wait loop,
\* and still signalled when wait_for_start resets the flag, stays signalled
\* for the next wait_for_start
C34_StartSignalKept ==
    [][(consumer = "reset_start" /\ consumer' = "return_channel"
            /\ segments > ws_seen /\ start) => start']_vars

(***************************************************************************)
(* Progress of the listener (claim C35): the telephony source goes on      *)
(* delivering events while on_event takes them, and a handler whose wait   *)
(* can end does end it.                                                    *)
(***************************************************************************)
SpecCallFair ==
    /\ SpecCall
    /\ WF_vars(on_event_accept)
    /\ WF_vars(\E event \in AmiEvents : on_event(event))

\* C35: a talk-start that waits in on_event, while the source has events
\* left to deliver, is eventually accepted: on_event returns
C35_BlockedStartAccepted ==
    (listener = "wait" /\ delivered < MaxAmiEvents) ~> (listener = "idle")

(***************************************************************************)
(* Progress of the queue worker (claim C36): the worker thread takes an    *)
(* entry whenever it is at the head of its loop and the queue has one, and *)
(* a call of process() it has made ends.                                   *)
(***************************************************************************)
SpecQueueFair ==
    /\ SpecQueue
    /\ WF_vars(WorkerPop)
    /\ WF_vars(\E outcome \in Outcomes : WorkerProcess(outcome))

\* C36: after a fatal failure of a job, the entries that are in the queue,
\* then or later, are eventually all dequeued
C36_QueueSurvivesFatal ==
    (fatal # <<>> /\ processing_queue # <<>>) ~> (processing_queue = <<>>)

(***************************************************************************)
(* EventHandler.process_files on a path (watcher.py), as on_created and    *)
(* on_modified call it: the in and out paths and the call identifier of    *)
(* the handle it creates (claims C37 and C38).                             *)
(***************************************************************************)
\* the place of the last c in s, 0 when there is none
LastIndex(s, c) ==
    IF \E k \in 1..Len(s) : s[k] = c
    THEN CHOOSE k \in 1..Len(s) :
             s[k] = c /\ \A m \in (k + 1)..Len(s) : s[m] # c
    ELSE 0

\* os.path.basename
basename(s) == SubSeq(s, LastIndex(s, "/") + 1, Len(s))

\* an identifier that stops at the first '-' of the name
BeforeFirstDash(name) ==
    IF \E k \in 1..Len(name) : name[k] = "-"
    THEN SubSeq(name, 1, (CHOOSE k \in 1..Len(name) :
             name[k] = "-" /\ \A m \in 1..(k - 1) : name[m] # "-") - 1)
    ELSE <<>>

\* '-'.join(name.split('-')[:-1]): the name up to its last '-', the empty
\* string when it has none
JoinButLast(name) ==
    IF LastIndex(name, "-") = 0 THEN <<>>
    ELSE SubSeq(name, 1, LastIndex(name, "-") - 1)

\* s.endswith(f'.{self.file_type}')
DotExt(type) == IF type = "wav" THEN <<".", "w", "a", "v">>
                ELSE <<".", "c", "s", "v">>
EndsWith(s, e) ==
    Len(s) >= Len(e) /\ SubSeq(s, Len(s) - Len(e) + 1, Len(s)) = e

\* '"in" in file_path'
HasIn(file_path) == Contains(file_path, <<"i", "n">>)

\* process_files(file_path, pair_path): generate_folder raises ValueError
\* for the empty identifier, before any handle is created
process_files_str(file_path, pair_path) ==
    LET in_path == IF HasIn(file_path) THEN file_path ELSE pair_path
        out_path == IF HasIn(file_path) THEN pair_path ELSE file_path
        id == JoinButLast(basename(file_path))
    IN  IF id = <<>>
        THEN [kind |-> "ValueError", in_path |-> <<>>, out_path |-> <<>>,
              unique_identifier |-> id]
        ELSE [kind |-> "handle", in_path |-> in_path, out_path |-> out_path,
              unique_identifier |-> id]

\* on_created / on_modified for the path, its pair being on disk
ApplyProcessFiles ==
    /\ path_handle = Unset
    /\ EndsWith(path_prefix \o path_suffix, DotExt(file_type))
    /\ get_pair_path_str(path_prefix \o path_suffix) # NonePath
    /\ pair' = get_pair_path_str(path_prefix \o path_suffix)
    /\ path_handle' = process_files_str(path_prefix \o path_suffix, pair'.value)
    /\ UNCHANGED <<path_prefix, path_suffix, back>>
    /\ UNCHANGED <<baseVars, convVars, speechVars>>

NextHandle == ApplyProcessFiles

InitHandle ==
    /\ InitCall /\ InitQueue /\ InitHist /\ InitControl /\ InitAudioIdle
    /\ InitMain /\ InitRunIdle
    /\ file_type \in FileTypes /\ files = {} /\ data = {}
    /\ InitPath /\ InitConvIdle /\ InitSpeech

SpecHandle == InitHandle /\ [][NextHandle]_vars

\* the markers of the two files of a pair of the kind of the marker
InMarker(marker) == IF marker \in {InWav, OutWav} THEN InWav ELSE InCsv
OutMarker(marker) == IF marker \in {InWav, OutWav} THEN OutWav ELSE OutCsv

\* C37: the handle created for X-in.<ext> or X-out.<ext> stores X-in.<ext>
\* as its inbound path and X-out.<ext> as its outbound path, whatever the
\* characters of X
C37_InAndOutPaths ==
    (path_handle # Unset /\ path_handle.kind = "handle" /\ path_suffix \in Markers) =>
        /\ path_handle.in_path = path_prefix \o InMarker(path_suffix)
        /\ path_handle.out_path = path_prefix \o OutMarker(path_suffix)

\* C38: the identifier derived for X-in.<ext> or X-out.<ext> is the name X
\* without its directory, the same for both files; when it is empty
\* process_files raises and there is no handle
C38_IdentifierIsPrefix ==
    (path_handle # Unset /\ path_suffix \in Markers) =>
        /\ path_handle.unique_identifier = basename(path_prefix)
        /\ basename(path_prefix) = <<>> <=> path_handle.kind = "ValueError"
        /\ path_handle.kind = "ValueError" => path_handle.in_path = <<>>

\* C38 witness: a call name with a '-' in it, under a directory
C38_DashInPrefix ==
    /\ path_handle # Unset /\ path_handle.kind = "handle"
    /\ path_suffix \in Markers
    /\ Contains(path_handle.unique_identifier, <<"-">>)
    /\ Contains(path_prefix, <<"/">>)

(***************************************************************************)
(* The whole program: every thread of every component.                     *)
(***************************************************************************)
Next == NextCall \/ NextQueue \/ NextPath \/ NextFold \/ NextKeyword \/ NextProcess
            \/ NextSched \/ NextControl \/ NextAudio
            \/ NextFollowUp \/ NextMain \/ NextRun \/ NextShutdown
            \/ NextHandle

Spec == Init /\ [][Next]_vars

====
